---- MODULE Spec2Model ----
(***************************************************************************)
(* Dashboard view-state synchronisation of the Cohort Manager front end.   *)
(*                                                                         *)
(* The model follows src/src/pages/dashboard/index.js: the component state *)
(* (posts, cohorts, selectedCohort, loadingPosts, loadingCohorts), the two *)
(* mount effects (fetchPosts, fetchCohorts) and the six mutation handlers. *)
(* Every handler is an async function: it is split at each await into the  *)
(* invocation (request sent), the server serving the request, and the      *)
(* continuation that runs when the response reaches the page.  The server  *)
(* of record is the environment; a request for a resource that no longer   *)
(* exists, or a transport failure, is a rejected call.                     *)
(*                                                                         *)
(* Object identity (===) of a post object is the pair (id, ref): ref is    *)
(* the allocation that produced the object, 0 for the initial load and the *)
(* call id of the handler whose continuation built it otherwise.           *)
(***************************************************************************)
EXTENDS Integers, Sequences, FiniteSets, TLC

\* ---- bounds ----
MaxOps == 2        \* handler invocations in one behaviour
MaxInflight == 2   \* handlers awaiting a response at the same time

\* ---- inputs ----
Contents == {"b"}
Roles == {0, 1}
CohortLists == {<<>>, <<1>>, <<2, 1>>}

VARIABLES
  posts,           \* useState([])  : sequence of post objects, view order
  cohorts,         \* useState([])
  selectedCohort,  \* useState(null), 0 stands for null
  loadingPosts,    \* useState(true)
  loadingCohorts,  \* useState(true)
  role,            \* user.role
  srv,             \* server of record: posts, oldest first, with comments
  nextPostId,      \* next id the server assigns to a post
  nextCommentId,   \* next id the server assigns to a comment
  postsFetch,      \* fetchPosts: position and response
  cohortsFetch,    \* fetchCohorts: position and response
  calls,           \* mutation handlers suspended at an await
  nextCid,         \* number of handler invocations so far
  consoleErrors,   \* who called console.error
  rejections,      \* handlers whose returned promise was rejected
  base,            \* posts as set by the last setPosts(value)
  log              \* updater functions applied since, in completion order

vars == <<posts, cohorts, selectedCohort, loadingPosts, loadingCohorts, role,
          srv, nextPostId, nextCommentId, postsFetch, cohortsFetch, calls,
          nextCid, consoleErrors, rejections, base, log>>

\* ---- sequences ----
Reverse(s) == [i \in 1..Len(s) |-> s[Len(s) + 1 - i]]

Ids(s) == {s[i].id : i \in 1..Len(s)}

Elements(s) == {s[i] : i \in 1..Len(s)}

\* ---- values ----
NoPayload == [id |-> 0, content |-> "", comments |-> <<>>]

\* a server record as the object the page receives, built by continuation ref
AsObject(p, ref) ==
  [id |-> p.id, content |-> p.content, ref |-> ref, comments |-> p.comments]

InitialServerPosts ==
  << [id |-> 1, content |-> "a", comments |-> << [id |-> 1, content |-> "a"] >>],
     [id |-> 2, content |-> "a", comments |-> <<>>] >>

\* ---- the server of record ----
HasPost(s, postId) == postId \in Ids(s)

PostOf(s, postId) == s[CHOOSE i \in 1..Len(s) : s[i].id = postId]

HasComment(s, commentId) ==
  \E i \in 1..Len(s) : commentId \in Ids(s[i].comments)

ServerCreatePost(s, id, content) ==
  Append(s, [id |-> id, content |-> content, comments |-> <<>>])

ServerDeletePost(s, postId) == SelectSeq(s, LAMBDA p : p.id # postId)

ServerPatchPost(s, postId, content) ==
  [i \in 1..Len(s) |->
     IF s[i].id = postId THEN [s[i] EXCEPT !.content = content] ELSE s[i]]

ServerCreateComment(s, postId, id, content) ==
  [i \in 1..Len(s) |->
     IF s[i].id = postId
       THEN [s[i] EXCEPT !.comments = Append(@, [id |-> id, content |-> content])]
       ELSE s[i]]

ServerDeleteComment(s, commentId) ==
  [i \in 1..Len(s) |->
     [s[i] EXCEPT !.comments = SelectSeq(@, LAMBDA c : c.id # commentId)]]

ServerPatchComment(s, commentId, content) ==
  [i \in 1..Len(s) |->
     [s[i] EXCEPT !.comments =
        [j \in 1..Len(@) |->
           IF @[j].id = commentId THEN [id |-> commentId, content |-> content]
                                  ELSE @[j]]]]

\* ---- the updater functions handed to setPosts ----
\* prev.map(fn); fn is given as a function on the elements of prev
updatePosts(fn, prev) == [i \in 1..Len(prev) |-> fn[prev[i]]]

handlePostSubmitUpdater(c, prev) == <<AsObject(c.payload, c.cid)>> \o prev

handleDeletePostUpdater(c, prev) == SelectSeq(prev, LAMBDA p : p.id # c.postId)

\* faulty variant: keeps the comments the page already had
handleUpdatePostUpdaterKeepsLocal(c, prev) ==
  updatePosts([post \in Elements(prev) |->
                IF post.id = c.postId
                  THEN [AsObject(c.payload, c.cid) EXCEPT !.comments = post.comments]
                  ELSE post],
              prev)

\* faulty variant: copies the posts it does not update ({ ...post })
handleUpdatePostUpdaterCopiesAll(c, prev) ==
  updatePosts([post \in Elements(prev) |->
                IF post.id = c.postId THEN AsObject(c.payload, c.cid)
                                      ELSE [post EXCEPT !.ref = c.cid]],
              prev)

handleUpdatePostUpdater(c, prev) ==
  updatePosts([post \in Elements(prev) |->
                IF post.id = c.postId THEN AsObject(c.payload, c.cid) ELSE post],
              prev)

\* faulty variant: maps over the posts captured when the handler was invoked
handleCommentPostUpdaterStale(c, prev) ==
  updatePosts([post \in Elements(c.snap) |->
                IF post.id = c.postId
                  THEN [post EXCEPT !.ref = c.cid,
                                    !.comments = Append(@, [id |-> c.payload.id,
                                                            content |-> c.payload.content])]
                  ELSE post],
              c.snap)

handleCommentPostUpdater(c, prev) ==
  updatePosts([post \in Elements(prev) |->
                IF post.id = c.postId
                  THEN [post EXCEPT !.ref = c.cid,
                                    !.comments = Append(@, [id |-> c.payload.id,
                                                            content |-> c.payload.content])]
                  ELSE post],
              prev)

\* faulty variant: filters the comments of every post, whatever its id
handleDeleteCommentUpdaterAnyPost(c, prev) ==
  updatePosts([post \in Elements(prev) |->
                [post EXCEPT !.ref = c.cid,
                             !.comments = SelectSeq(@, LAMBDA k : k.id # c.commentId)]],
              prev)

handleDeleteCommentUpdater(c, prev) ==
  updatePosts([post \in Elements(prev) |->
                IF post.id = c.postId
                  THEN [post EXCEPT !.ref = c.cid,
                                    !.comments = SelectSeq(@, LAMBDA k : k.id # c.commentId)]
                  ELSE post],
              prev)

handleUpdateCommentUpdater(c, prev) ==
  updatePosts([post \in Elements(prev) |->
                IF post.id = c.postId
                  THEN [post EXCEPT !.ref = c.cid,
                                    !.comments =
                                      [j \in 1..Len(@) |->
                                         IF @[j].id = c.commentId
                                           THEN [id |-> c.payload.id,
                                                 content |-> c.payload.content]
                                           ELSE @[j]]]
                  ELSE post],
              prev)

Updater(c, prev) ==
  CASE c.kind = "createPost"    -> handlePostSubmitUpdater(c, prev)
    [] c.kind = "deletePost"    -> handleDeletePostUpdater(c, prev)
    [] c.kind = "updatePost"    -> handleUpdatePostUpdater(c, prev)
    [] c.kind = "createComment" -> handleCommentPostUpdater(c, prev)
    [] c.kind = "deleteComment" -> handleDeleteCommentUpdater(c, prev)
    [] c.kind = "updateComment" -> handleUpdateCommentUpdater(c, prev)

\* ---- control flow of an async handler around its await ----
\* faulty variant: the continuation runs whatever the outcome of the await
ProceedsAlways(c) == TRUE

\* a rejected await throws: the statements after it are skipped
Proceeds(c) == c.outcome = "ok"

\* faulty variant: no handler has a try/catch
CatchesNothing(kind) == FALSE

\* handlePostSubmit wraps its await in try/catch; the other handlers do not
Catches(kind) == kind = "createPost"

\* faulty variant: the flag is cleared on the success path only
LoadingClearedOnSuccessOnly(outcome) == outcome # "ok"

\* finally { setLoading...(false) }
LoadingAfterSettle(outcome) == FALSE

\* ---- initial state: the component has mounted, both effects have run ----
Init ==
  /\ posts = <<>>
  /\ cohorts = [isArray |-> TRUE, items |-> <<>>]
  /\ selectedCohort = 0
  /\ loadingPosts = TRUE
  /\ loadingCohorts = TRUE
  /\ role \in Roles
  /\ srv = InitialServerPosts
  /\ nextPostId = 3
  /\ nextCommentId = 2
  /\ postsFetch = [stage |-> "sent", outcome |-> "pending", payload |-> <<>>]
  /\ cohortsFetch = [stage |-> "sent", outcome |-> "pending", body |-> <<>>]
  /\ calls = {}
  /\ nextCid = 0
  /\ consoleErrors = {}
  /\ rejections = {}
  /\ base = <<>>
  /\ log = <<>>

\* ---- fetchPosts ----
ServeGetPosts ==
  /\ postsFetch.stage = "sent"
  /\ \/ postsFetch' = [stage |-> "responded", outcome |-> "ok", payload |-> srv]
     \/ postsFetch' = [stage |-> "responded", outcome |-> "rejected", payload |-> <<>>]
  /\ UNCHANGED <<posts, cohorts, selectedCohort, loadingPosts, loadingCohorts,
                 role, srv, nextPostId, nextCommentId, cohortsFetch, calls,
                 nextCid, consoleErrors, rejections, base, log>>

PostsFromApi(payload) == [i \in 1..Len(payload) |-> AsObject(payload[i], 0)]

FetchPostsSettle ==
  /\ postsFetch.stage = "responded"
  /\ postsFetch' = [stage |-> "done", outcome |-> postsFetch.outcome, payload |-> <<>>]
  /\ IF postsFetch.outcome = "ok"
       THEN /\ posts' = Reverse(PostsFromApi(postsFetch.payload))
            /\ base' = posts'
            /\ log' = <<>>
            /\ UNCHANGED consoleErrors
       ELSE /\ consoleErrors' = consoleErrors \cup {"fetchPosts"}
            /\ UNCHANGED <<posts, base, log>>
  /\ loadingPosts' = LoadingAfterSettle(postsFetch.outcome)
  /\ UNCHANGED <<cohorts, selectedCohort, loadingCohorts, role, srv, nextPostId,
                 nextCommentId, cohortsFetch, calls, nextCid, rejections>>

\* ---- fetchCohorts ----
\* what request() resolves to for a response whose body is the list `body`:
\* the Response object itself when the caller asks for the full response,
\* the parsed body otherwise (bare list, or the list under `data`)
request(body, enveloped, getFullResponse) ==
  IF getFullResponse
    THEN [isArray |-> FALSE, hasData |-> FALSE, items |-> <<>>]
    ELSE [isArray |-> ~enveloped, hasData |-> enveloped, items |-> body]

\* get('cohorts', true, true)
getCohorts(body, enveloped) == request(body, enveloped, TRUE)

\* GET /cohorts?user= : the cohorts of one user, parsed
getCohortsForUser(body, enveloped) == request(body, enveloped, FALSE)

\* json.data || json
DataOrSelf(json) ==
  IF json.hasData THEN [isArray |-> TRUE, hasData |-> FALSE, items |-> json.items]
                  ELSE json

\* cohortData.length, 0 standing for undefined
Length(value) == IF value.isArray THEN Len(value.items) ELSE 0

FetchCohortsSettle ==
  /\ cohortsFetch.stage = "sent"
  /\ \/ /\ role = 0
        /\ \E body \in CohortLists, enveloped \in BOOLEAN :
             LET cohortData == DataOrSelf(getCohortsForUser(body, enveloped))
             IN  /\ selectedCohort' = IF Length(cohortData) > 0
                                        THEN cohortData.items[1]
                                        ELSE selectedCohort
                 /\ cohortsFetch' = [stage |-> "done", outcome |-> "ok",
                                     body |-> body]
        /\ loadingCohorts' = LoadingAfterSettle("ok")
        /\ UNCHANGED <<cohorts, consoleErrors>>
     \/ /\ role # 0
        /\ \E body \in CohortLists, enveloped \in BOOLEAN :
             LET cohortData == DataOrSelf(getCohorts(body, enveloped))
             IN  /\ cohorts' = [isArray |-> cohortData.isArray,
                                items |-> cohortData.items]
                 /\ cohortsFetch' = [stage |-> "done", outcome |-> "ok",
                                     body |-> body]
        /\ loadingCohorts' = LoadingAfterSettle("ok")
        /\ UNCHANGED <<selectedCohort, consoleErrors>>
     \/ /\ consoleErrors' = consoleErrors \cup {"fetchCohorts"}
        /\ cohortsFetch' = [stage |-> "done", outcome |-> "rejected",
                            body |-> <<>>]
        /\ loadingCohorts' = LoadingAfterSettle("rejected")
        /\ UNCHANGED <<cohorts, selectedCohort>>
  /\ UNCHANGED <<posts, loadingPosts, role, srv, nextPostId, nextCommentId,
                 postsFetch, calls, nextCid, rejections, base, log>>

\* ---- invoking a handler: the request leaves the page ----
NewCall(kind, postId, commentId, content) ==
  [cid |-> nextCid + 1, kind |-> kind, stage |-> "sent", postId |-> postId,
   commentId |-> commentId, content |-> content, outcome |-> "pending",
   payload |-> NoPayload, snap |-> posts]

CanInvoke == nextCid < MaxOps /\ Cardinality(calls) < MaxInflight

Invoke(c) ==
  /\ calls' = calls \cup {c}
  /\ nextCid' = nextCid + 1
  /\ UNCHANGED <<posts, cohorts, selectedCohort, loadingPosts, loadingCohorts,
                 role, srv, nextPostId, nextCommentId, postsFetch, cohortsFetch,
                 consoleErrors, rejections, base, log>>

\* the composer is rendered whatever loadingPosts is
InvokePostSubmit ==
  /\ CanInvoke
  /\ \E text \in Contents : Invoke(NewCall("createPost", 0, 0, text))

\* <Posts> and its callbacks are rendered only when loadingPosts is false
InvokeDeletePost ==
  /\ CanInvoke
  /\ ~loadingPosts
  /\ \E postId \in Ids(posts) : Invoke(NewCall("deletePost", postId, 0, ""))

InvokeUpdatePost ==
  /\ CanInvoke
  /\ ~loadingPosts
  /\ \E postId \in Ids(posts), newContent \in Contents :
       Invoke(NewCall("updatePost", postId, 0, newContent))

InvokeCommentPost ==
  /\ CanInvoke
  /\ ~loadingPosts
  /\ \E postId \in Ids(posts), text \in Contents :
       Invoke(NewCall("createComment", postId, 0, text))

InvokeDeleteComment ==
  /\ CanInvoke
  /\ ~loadingPosts
  /\ \E i \in 1..Len(posts) : \E commentId \in Ids(posts[i].comments) :
       Invoke(NewCall("deleteComment", posts[i].id, commentId, ""))

InvokeUpdateComment ==
  /\ CanInvoke
  /\ ~loadingPosts
  /\ \E i \in 1..Len(posts) : \E commentId \in Ids(posts[i].comments) :
       \E newContent \in Contents :
         Invoke(NewCall("updateComment", posts[i].id, commentId, newContent))

\* ---- the server serves a request ----
Respond(c, stage, outcome, payload) ==
  calls' = (calls \ {c}) \cup
             {[c EXCEPT !.stage = stage, !.outcome = outcome, !.payload = payload]}

ResponseStage(c) == IF c.stage = "sent" THEN "responded" ELSE "responded2"

Awaiting(c, kind, stage) == c \in calls /\ c.kind = kind /\ c.stage = stage

ClientUnchanged ==
  UNCHANGED <<posts, cohorts, selectedCohort, loadingPosts, loadingCohorts, role,
              postsFetch, cohortsFetch, nextCid, consoleErrors, rejections,
              base, log>>

\* transport failure, or the resource of the request is gone
ServeReject ==
  \E c \in calls :
    /\ c.stage \in {"sent", "sent2"}
    /\ Respond(c, ResponseStage(c), "rejected", c.payload)
    /\ UNCHANGED <<srv, nextPostId, nextCommentId>>
    /\ ClientUnchanged

ServePostPost ==
  \E c \in calls :
    /\ Awaiting(c, "createPost", "sent")
    /\ srv' = ServerCreatePost(srv, nextPostId, c.content)
    /\ nextPostId' = nextPostId + 1
    /\ Respond(c, "responded", "ok",
               [id |-> nextPostId, content |-> c.content, comments |-> <<>>])
    /\ UNCHANGED nextCommentId
    /\ ClientUnchanged

ServeDeletePost ==
  \E c \in calls :
    /\ Awaiting(c, "deletePost", "sent")
    /\ HasPost(srv, c.postId)
    /\ srv' = ServerDeletePost(srv, c.postId)
    /\ Respond(c, "responded", "ok", NoPayload)
    /\ UNCHANGED <<nextPostId, nextCommentId>>
    /\ ClientUnchanged

ServePatchPost ==
  \E c \in calls :
    /\ Awaiting(c, "updatePost", "sent")
    /\ HasPost(srv, c.postId)
    /\ srv' = ServerPatchPost(srv, c.postId, c.content)
    /\ Respond(c, "responded", "ok", PostOf(srv', c.postId))
    /\ UNCHANGED <<nextPostId, nextCommentId>>
    /\ ClientUnchanged

ServeGetCommentByPostId ==
  \E c \in calls :
    /\ Awaiting(c, "updatePost", "sent2")
    /\ HasPost(srv, c.postId)
    /\ Respond(c, "responded2", "ok",
               [c.payload EXCEPT !.comments = PostOf(srv, c.postId).comments])
    /\ UNCHANGED <<srv, nextPostId, nextCommentId>>
    /\ ClientUnchanged

ServePostComments ==
  \E c \in calls :
    /\ Awaiting(c, "createComment", "sent")
    /\ HasPost(srv, c.postId)
    /\ srv' = ServerCreateComment(srv, c.postId, nextCommentId, c.content)
    /\ nextCommentId' = nextCommentId + 1
    /\ Respond(c, "responded", "ok",
               [id |-> nextCommentId, content |-> c.content, comments |-> <<>>])
    /\ UNCHANGED nextPostId
    /\ ClientUnchanged

ServeDeleteComment ==
  \E c \in calls :
    /\ Awaiting(c, "deleteComment", "sent")
    /\ HasComment(srv, c.commentId)
    /\ srv' = ServerDeleteComment(srv, c.commentId)
    /\ Respond(c, "responded", "ok", NoPayload)
    /\ UNCHANGED <<nextPostId, nextCommentId>>
    /\ ClientUnchanged

ServePatchComment ==
  \E c \in calls :
    /\ Awaiting(c, "updateComment", "sent")
    /\ HasComment(srv, c.commentId)
    /\ srv' = ServerPatchComment(srv, c.commentId, c.content)
    /\ Respond(c, "responded", "ok",
               [id |-> c.commentId, content |-> c.content, comments |-> <<>>])
    /\ UNCHANGED <<nextPostId, nextCommentId>>
    /\ ClientUnchanged

\* ---- the continuation after the await ----
LogEntry(c) == [c EXCEPT !.snap = <<>>]

\* the handler returns or throws; on the success path it has called setPosts
Settle(c) ==
  /\ calls' = calls \ {c}
  /\ IF Proceeds(c)
       THEN /\ posts' = Updater(c, posts)
            /\ log' = Append(log, LogEntry(c))
       ELSE UNCHANGED <<posts, log>>
  /\ IF c.outcome = "rejected"
       THEN IF Catches(c.kind)
              THEN /\ consoleErrors' = consoleErrors \cup {"handlePostSubmit"}
                   /\ UNCHANGED rejections
              ELSE /\ rejections' = rejections \cup {c.kind}
                   /\ UNCHANGED consoleErrors
       ELSE UNCHANGED <<consoleErrors, rejections>>
  /\ UNCHANGED <<cohorts, selectedCohort, loadingPosts, loadingCohorts, role,
                 srv, nextPostId, nextCommentId, postsFetch, cohortsFetch,
                 nextCid, base>>

handlePostSubmit == \E c \in calls : Awaiting(c, "createPost", "responded") /\ Settle(c)

handleDeletePost == \E c \in calls : Awaiting(c, "deletePost", "responded") /\ Settle(c)

\* after patchPost resolves the handler awaits getCommentByPostId
handleUpdatePostPatched ==
  \E c \in calls :
    /\ Awaiting(c, "updatePost", "responded")
    /\ IF Proceeds(c)
         THEN /\ calls' = (calls \ {c}) \cup
                            {[c EXCEPT !.stage = "sent2", !.outcome = "pending"]}
              /\ UNCHANGED <<posts, cohorts, selectedCohort, loadingPosts,
                             loadingCohorts, role, srv, nextPostId, nextCommentId,
                             postsFetch, cohortsFetch, nextCid, consoleErrors,
                             rejections, base, log>>
         ELSE Settle(c)

handleUpdatePost == \E c \in calls : Awaiting(c, "updatePost", "responded2") /\ Settle(c)

handleCommentPost == \E c \in calls : Awaiting(c, "createComment", "responded") /\ Settle(c)

handleDeleteComment == \E c \in calls : Awaiting(c, "deleteComment", "responded") /\ Settle(c)

handleUpdateComment == \E c \in calls : Awaiting(c, "updateComment", "responded") /\ Settle(c)

Next ==
  \/ ServeGetPosts
  \/ FetchPostsSettle
  \/ FetchCohortsSettle
  \/ InvokePostSubmit
  \/ InvokeDeletePost
  \/ InvokeUpdatePost
  \/ InvokeCommentPost
  \/ InvokeDeleteComment
  \/ InvokeUpdateComment
  \/ ServeReject
  \/ ServePostPost
  \/ ServeDeletePost
  \/ ServePatchPost
  \/ ServeGetCommentByPostId
  \/ ServePostComments
  \/ ServeDeleteComment
  \/ ServePatchComment
  \/ handlePostSubmit
  \/ handleDeletePost
  \/ handleUpdatePostPatched
  \/ handleUpdatePost
  \/ handleCommentPost
  \/ handleDeleteComment
  \/ handleUpdateComment

Spec == Init /\ [][Next]_vars

\* the posts feed alone: the cohort fetch shares no state with it and stays
\* pending
NextPosts ==
  \/ ServeGetPosts
  \/ FetchPostsSettle
  \/ InvokePostSubmit
  \/ InvokeDeletePost
  \/ InvokeUpdatePost
  \/ InvokeCommentPost
  \/ InvokeDeleteComment
  \/ InvokeUpdateComment
  \/ ServeReject
  \/ ServePostPost
  \/ ServeDeletePost
  \/ ServePatchPost
  \/ ServeGetCommentByPostId
  \/ ServePostComments
  \/ ServeDeleteComment
  \/ ServePatchComment
  \/ handlePostSubmit
  \/ handleDeletePost
  \/ handleUpdatePostPatched
  \/ handleUpdatePost
  \/ handleCommentPost
  \/ handleDeleteComment
  \/ handleUpdateComment

SpecPosts == Init /\ [][NextPosts]_vars

\* the two mount effects and the composer, the one handler that does not wait
\* for the posts to load
NextLoad ==
  \/ ServeGetPosts
  \/ FetchPostsSettle
  \/ FetchCohortsSettle
  \/ InvokePostSubmit
  \/ ServeReject
  \/ ServePostPost
  \/ handlePostSubmit

SpecLoad == Init /\ [][NextLoad]_vars

\* ======================== properties ========================

\* the continuation of c runs in this step and the handler returns or throws
Settles(c) ==
  /\ c \in calls
  /\ c.stage \in {"responded", "responded2"}
  /\ calls' = calls \ {c}

SettlesOk(c, kind) == Settles(c) /\ c.kind = kind /\ c.outcome = "ok"

NoDuplicateIds(s) == \A i, j \in 1..Len(s) : s[i].id = s[j].id => i = j

AllResolved == calls = {} /\ postsFetch.stage = "done"

AllSucceeded ==
  /\ consoleErrors \cap {"fetchPosts", "handlePostSubmit"} = {}
  /\ rejections = {}

\* C1: once the initial load and every create/delete call have resolved, all
\* successfully, posts holds exactly the surviving posts: as many entries
\* as the server has posts, no id twice, no surviving id missing.
C1_PostsAreSurvivors ==
  (AllResolved /\ AllSucceeded) =>
    /\ Len(posts) = Len(srv)
    /\ NoDuplicateIds(posts)
    /\ Ids(posts) = Ids(srv)

\* C2 as stated: when handleUpdatePost completes successfully the comments of
\* the post with that id equal the comments the server holds for it now.
C2_CommentsEqualServerLatest ==
  [][\A c \in calls :
       (SettlesOk(c, "updatePost") /\ HasPost(srv, c.postId)) =>
         \A i \in 1..Len(posts') :
           posts'[i].id = c.postId =>
             posts'[i].comments = PostOf(srv, c.postId).comments]_vars

\* C2 amended: when handleUpdatePost completes successfully the comments of
\* every post with that id are the comment sequence that the server returned
\* to this handler's getCommentByPostId call, whatever the page held before.
C2_CommentsEqualFetched ==
  [][\A c \in calls :
       SettlesOk(c, "updatePost") =>
         /\ Len(posts') = Len(posts)
         /\ \A i \in 1..Len(posts) :
              posts[i].id = c.postId =>
                /\ posts'[i].id = c.postId
                /\ posts'[i].comments = c.payload.comments]_vars

\* a post was refreshed to comments that differ from what the page held and
\* from what the server holds by now
C2_Witness ==
  \E k \in 1..Len(log) : \E i \in 1..Len(posts) :
    /\ log[k].kind = "updatePost"
    /\ posts[i].id = log[k].postId
    /\ posts[i].ref = log[k].cid
    /\ posts[i].comments = log[k].payload.comments
    /\ HasPost(srv, posts[i].id)
    /\ posts[i].comments # PostOf(srv, posts[i].id).comments

\* C3: a handler whose server call is rejected leaves posts as it was; this
\* includes handleUpdatePost when the comment fetch after the PATCH is rejected.
C3_RejectedLeavesPosts ==
  [][\A c \in calls :
       (Settles(c) /\ c.outcome = "rejected") => posts' = posts]_vars

C3_Witness ==
  /\ "updatePost" \in rejections
  /\ "handlePostSubmit" \in consoleErrors
  /\ calls = {}
  /\ posts = Reverse(PostsFromApi(InitialServerPosts))

\* C4 as stated: every mutation handler lets a rejected call propagate to its
\* caller and none of them logs it.
C4_AllPropagate ==
  [][\A c \in calls :
       (Settles(c) /\ c.outcome = "rejected") =>
         /\ c.kind \in rejections'
         /\ consoleErrors' = consoleErrors]_vars

\* C4 amended: delete post, update post and the three comment handlers let a
\* rejected call propagate; handlePostSubmit catches it and logs it, as the
\* two initial-load fetches do.
C4_AllButCreatePropagate ==
  [][/\ \A c \in calls :
          (Settles(c) /\ c.outcome = "rejected") =>
            IF c.kind = "createPost"
              THEN /\ rejections' = rejections
                   /\ "handlePostSubmit" \in consoleErrors'
              ELSE /\ c.kind \in rejections'
                   /\ consoleErrors' = consoleErrors
     /\ (postsFetch.stage = "responded" /\ postsFetch'.stage = "done"
           /\ postsFetch.outcome = "rejected") =>
          (rejections' = rejections /\ "fetchPosts" \in consoleErrors')
     /\ "createPost" \notin rejections']_vars

C4_Witness ==
  /\ "handlePostSubmit" \in consoleErrors
  /\ "deletePost" \in rejections
  /\ "createPost" \notin rejections

\* C5: a successful handleUpdatePost keeps the length and order of posts and
\* leaves every post with another id the same object at the same position.
C5_UpdateLeavesOthers ==
  [][\A c \in calls :
       SettlesOk(c, "updatePost") =>
         /\ Len(posts') = Len(posts)
         /\ \A i \in 1..Len(posts) :
              posts[i].id # c.postId => posts'[i] = posts[i]]_vars

C5_Witness ==
  \E k \in 1..Len(log) : \E i, j \in 1..Len(posts) :
    /\ log[k].kind = "updatePost"
    /\ posts[i].id = log[k].postId
    /\ posts[i].ref = log[k].cid
    /\ posts[i].content = "b"
    /\ posts[j].id # log[k].postId
    /\ posts[j].ref = 0

WithoutComment(comments, commentId) ==
  SelectSeq(comments, LAMBDA k : k.id # commentId)

\* C6 as stated: a successful handleDeleteComment removes exactly one comment,
\* the one with id commentId, from exactly one post; the other comments of
\* that post keep their order and the other posts keep their comments.
C6_RemovesExactlyOne ==
  [][\A c \in calls :
       SettlesOk(c, "deleteComment") =>
         /\ Len(posts') = Len(posts)
         /\ \E i \in 1..Len(posts) :
              /\ posts[i].id = c.postId
              /\ Len(posts'[i].comments) = Len(posts[i].comments) - 1
              /\ posts'[i].comments = WithoutComment(posts[i].comments, c.commentId)
              /\ \A j \in 1..Len(posts) :
                   j # i => posts'[j].comments = posts[j].comments]_vars

\* C6 amended: a successful handleDeleteComment removes every comment whose id
\* is commentId (none if the page no longer holds it) from every post of posts
\* whose id is postId; the other comments of these posts keep their order and
\* every other post is the same object as before.
C6_RemovesMatching ==
  [][\A c \in calls :
       SettlesOk(c, "deleteComment") =>
         /\ Len(posts') = Len(posts)
         /\ \A i \in 1..Len(posts) :
              IF posts[i].id = c.postId
                THEN /\ posts'[i].id = posts[i].id
                     /\ posts'[i].content = posts[i].content
                     /\ c.commentId \notin Ids(posts'[i].comments)
                     /\ posts'[i].comments =
                          WithoutComment(posts[i].comments, c.commentId)
                ELSE posts'[i] = posts[i]]_vars

\* a comment deletion has completed on a post while another post was there
C6_Witness ==
  \E k \in 1..Len(log) : \E i, j \in 1..Len(posts) :
    /\ log[k].kind = "deleteComment"
    /\ posts[i].id = log[k].postId
    /\ posts[i].ref = log[k].cid
    /\ log[k].commentId \notin Ids(posts[i].comments)
    /\ posts[j].id # log[k].postId
    /\ posts[j].ref = 0

\* C7: a post created through the composer, also one submitted while the
\* initial load is in flight, is the first element of posts and so shown first
\* in the feed: with one post created and nothing else done, once the load and
\* the create have resolved the created post heads posts.
C7_CreatedPostShownFirst ==
  (/\ nextCid = 1
   /\ nextPostId = 4
   /\ calls = {}
   /\ postsFetch.stage = "done"
   /\ "handlePostSubmit" \notin consoleErrors) =>
    (Len(posts) > 0 /\ posts[1].id = 3)

\* the local transform of each action as the design table gives it
Transformed(e, s) ==
  CASE e.kind = "createPost" ->
         <<[id |-> e.payload.id, content |-> e.payload.content, ref |-> e.cid,
            comments |-> e.payload.comments]>> \o s
    [] e.kind = "deletePost" ->
         SelectSeq(s, LAMBDA p : p.id # e.postId)
    [] e.kind = "updatePost" ->
         [i \in 1..Len(s) |->
            IF s[i].id = e.postId
              THEN [id |-> e.payload.id, content |-> e.payload.content,
                    ref |-> e.cid, comments |-> e.payload.comments]
              ELSE s[i]]
    [] e.kind = "createComment" ->
         [i \in 1..Len(s) |->
            IF s[i].id = e.postId
              THEN [id |-> s[i].id, content |-> s[i].content, ref |-> e.cid,
                    comments |-> s[i].comments \o
                      <<[id |-> e.payload.id, content |-> e.payload.content]>>]
              ELSE s[i]]
    [] e.kind = "deleteComment" ->
         [i \in 1..Len(s) |->
            IF s[i].id = e.postId
              THEN [id |-> s[i].id, content |-> s[i].content, ref |-> e.cid,
                    comments |-> WithoutComment(s[i].comments, e.commentId)]
              ELSE s[i]]
    [] e.kind = "updateComment" ->
         [i \in 1..Len(s) |->
            IF s[i].id = e.postId
              THEN [id |-> s[i].id, content |-> s[i].content, ref |-> e.cid,
                    comments |->
                      [j \in 1..Len(s[i].comments) |->
                         IF s[i].comments[j].id = e.commentId
                           THEN [id |-> e.payload.id, content |-> e.payload.content]
                           ELSE s[i].comments[j]]]
              ELSE s[i]]

RECURSIVE Replay(_, _)
Replay(s, l) == IF l = <<>> THEN s ELSE Replay(Transformed(Head(l), s), Tail(l))

C9_NewestFirst ==
  (postsFetch.stage = "done" /\ postsFetch.outcome = "ok") =>
    \A i, j \in 1..Len(posts) : i < j => posts[i].id >= posts[j].id

\* C10: each loading flag is true exactly until its own fetch settles, however
\* the fetch settles and wherever the other fetch is, and once false it stays
\* false.
C10_LoadingFlags ==
  [][/\ loadingPosts' = (postsFetch'.stage # "done")
     /\ loadingCohorts' = (cohortsFetch'.stage # "done")
     /\ (~loadingPosts => ~loadingPosts')
     /\ (~loadingCohorts => ~loadingCohorts')]_vars

\* the posts fetch was rejected and cleared its flag while the cohorts fetch
\* is still pending
C10_Witness ==
  /\ postsFetch.stage = "done"
  /\ postsFetch.outcome = "rejected"
  /\ ~loadingPosts
  /\ cohortsFetch.stage = "sent"
  /\ loadingCohorts

\* the aggregate view calls cohorts.flatMap(...) when it renders
sortedCoursesDefined == cohorts.isArray

\* C11: after a successful cohort load, a student has selectedCohort set to
\* the first cohort returned (null when none is returned) and cohorts still
\* empty; staff have cohorts set to the ordered list the server returned, a
\* sequence the aggregate view can use, and selectedCohort still null.
C11_CohortsByRole ==
  (cohortsFetch.stage = "done" /\ cohortsFetch.outcome = "ok") =>
    IF role = 0
      THEN /\ selectedCohort = IF cohortsFetch.body # <<>>
                                 THEN cohortsFetch.body[1] ELSE 0
           /\ cohorts = [isArray |-> TRUE, items |-> <<>>]
      ELSE /\ sortedCoursesDefined
           /\ cohorts.items = cohortsFetch.body
           /\ selectedCohort = 0
====
